---- MODULE Spec2Model ----
(***************************************************************************)
(* Model of controlplane/nested/controllers/controller_util.go:            *)
(* createNestedComponentSts and the helpers it calls, run repeatedly by    *)
(* the external watch loop against one object store.                       *)
(***************************************************************************)
EXTENDS Integers, Sequences, FiniteSets, TLC

(* ---------------- bounds of the model ---------------- *)
MaxReplicas == 3
MaxTmplReplicas == 2
MaxContainers == 2

(* ---------------- values ---------------- *)
\* a nil *int32 (StatefulSet.Spec.Replicas of a zero StatefulSet, or a
\* template that does not set replicas)
NilReplicas == -1

APIServer == "NestedAPIServer"
Etcd == "NestedEtcd"
ControllerManager == "NestedControllerManager"
\* ComponentKind is a string type: any other value can reach the dispatch
OtherKind == "Other"
ComponentKinds == {APIServer, Etcd, ControllerManager, OtherKind}

Versions == {"", "1.2.3"}
Channels == {"", "stable"}
\* corev1.ResourceRequirements values of the NestedComponentSpec
EmptyResources == "none"
ResourceValues == {EmptyResources, "cpu500m"}

clusterName == "demo"
controlPlaneName == "cp"
\* ncMeta: the metadata of the NestedComponent being reconciled
ncMeta == [name |-> "nc", namespace |-> "ns1", uid |-> "uid-nc"]

\* the ways a fetched template can be defective
TmplDefects == {"none", "stsSyntax", "stsSchema", "svcSyntax", "svcSchema"}
\* an owner reference a template author may have left in the manifest
ForeignRef == [name |-> "tmpl-owner", uid |-> "uid-x", kind |-> "Template",
               controller |-> FALSE]

VARIABLES
    ncSpec,     \* the NestedComponentSpec handed to every invocation
    ncKind,     \* the ComponentKind handed to every invocation
    tmpl,       \* what the default templates behind templatePath hold
    flaky,      \* TRUE while template fetches and the store can fail transiently
    store,      \* the object store: [services, statefulsets], sets of objects
    pc,         \* position of the invocation of createNestedComponentSts
    ncSts,      \* local ncSts
    ncSvc,      \* local ncSvc
    creates,    \* the cli.Create calls of the current invocation, in order
    result      \* how the last invocation ended: [outcome, err]

vars == <<ncSpec, ncKind, tmpl, flaky, store, pc, ncSts, ncSvc, creates, result>>

(* ---------------- objects ---------------- *)
\* &appsv1.StatefulSet{} and &corev1.Service{}
EmptySts == [name |-> <<>>, replicas |-> NilReplicas, containers |-> <<>>,
             ownerReferences |-> <<>>]
EmptySvc == [name |-> <<>>, ownerReferences |-> <<>>]

NoResult == [outcome |-> "none", err |-> "none"]

\* metav1.NewControllerRef(&ncMeta, GroupVersion.WithKind(string(ncKind)))
NewControllerRef(meta, kind) ==
    [name |-> meta.name, uid |-> meta.uid, kind |-> kind, controller |-> TRUE]

\* obj.SetOwnerReferences(refs): the slice is replaced
SetOwnerReferencesAppend(obj, refs) ==
    [obj EXCEPT !.ownerReferences = obj.ownerReferences \o refs]

SetOwnerReferences(obj, refs) ==
    [obj EXCEPT !.ownerReferences = refs]

(* ---------------- templates ---------------- *)
getTemplateArgs(meta, cpName, clName) ==
    [componentName |-> meta.name, componentNamespace |-> meta.namespace,
     clusterName |-> clName, controlPlaneName |-> cpName]

\* text/template with missingkey=zero: a placeholder the context lacks
\* renders as the empty string; literals are copied
substituteTemplate(context, tokens) ==
    [i \in 1..Len(tokens) |->
        IF tokens[i].ph
        THEN IF tokens[i].text \in DOMAIN context THEN context[tokens[i].text] ELSE ""
        ELSE tokens[i].text]

\* metadata.name of the default manifests: "{{.clusterName}}-<suffix>"
NameTemplate(suffix) ==
    <<[ph |-> TRUE, text |-> "clusterName"], [ph |-> FALSE, text |-> suffix]>>

StsSuffix(kind) ==
    CASE kind = APIServer -> "-apiserver"
      [] kind = Etcd -> "-etcd"
      [] OTHER -> "-controller-manager"

\* one command-line argument: a literal, or (lit = "") the comma-joined
\* peer list
Lit(text) == [lit |-> text, peers |-> <<>>]
PeerList(peers) == [lit |-> "", peers |-> peers]

\* the containers of the StatefulSet manifest, each with its own resources
\* and arguments
TmplContainers(n) ==
    [i \in 1..n |-> [resources |-> IF i = 1 THEN "tmplA" ELSE "tmplB",
                     args |-> <<Lit("--name")>>]]

\* yamlToObject of the rendered StatefulSet manifest
DecodeSts(t, kind) ==
    [name |-> substituteTemplate(getTemplateArgs(ncMeta, controlPlaneName, clusterName),
                                 NameTemplate(StsSuffix(kind))),
     replicas |-> t.replicas,
     containers |-> TmplContainers(t.nContainers),
     ownerReferences |-> t.ownerRefs]

\* yamlToObject of the rendered Service manifest
DecodeSvc(t, kind) ==
    [name |-> substituteTemplate(getTemplateArgs(ncMeta, controlPlaneName, clusterName),
                                 NameTemplate(StsSuffix(kind))),
     ownerReferences |-> t.ownerRefs]

(* ---------------- genStatefulSetObject ---------------- *)
\* the peer list the flag value holds: one peer per replica, named
\* stsName-0 .. stsName-(replicas-1), each with its peer URL
genInitialClusterArgs(replicas, stsName, svcName, svcNamespace) ==
    [i \in 1..replicas |->
        [peer |-> <<stsName, i - 1>>,
         url |-> <<stsName, i - 1, svcName, svcNamespace>>]]

\* lines 143-158: the template the version/channel and the kind select
StsTemplateURLAnyUnset(spec, kind) ==
    IF spec.Version = "" \/ spec.Channel = ""
    THEN CASE kind = APIServer -> "defaultKASStatefulSetURL"
           [] kind = Etcd -> "defaultEtcdStatefulSetURL"
           [] kind = ControllerManager -> "defaultKCMStatefulSetURL"
           [] OTHER -> "panic: Unreachable"
    ELSE "panic: NOT IMPLEMENT YET"

StsTemplateURL(spec, kind) ==
    IF spec.Version = "" /\ spec.Channel = ""
    THEN CASE kind = APIServer -> "defaultKASStatefulSetURL"
           [] kind = Etcd -> "defaultEtcdStatefulSetURL"
           [] kind = ControllerManager -> "defaultKCMStatefulSetURL"
           [] OTHER -> "panic: Unreachable"
    ELSE "panic: NOT IMPLEMENT YET"

\* lines 182-185: every container gets ncSpec.Resources
SetResourcesFirstOnly(sts, spec) ==
    [sts EXCEPT !.containers =
        [i \in 1..Len(sts.containers) |->
            IF i = 1 THEN [sts.containers[i] EXCEPT !.resources = spec.Resources]
            ELSE sts.containers[i]]]

SetResources(sts, spec) ==
    [sts EXCEPT !.containers =
        [i \in 1..Len(sts.containers) |->
            [sts.containers[i] EXCEPT !.resources = spec.Resources]]]

\* lines 186-188: the replicas are overridden only when set
SetReplicasAlways(sts, spec) ==
    [sts EXCEPT !.replicas = spec.Replicas]

SetReplicas(sts, spec) ==
    IF spec.Replicas # 0 THEN [sts EXCEPT !.replicas = spec.Replicas] ELSE sts

\* lines 194-200: Containers[0] of an Etcd StatefulSet gets the flag appended;
\* the caller has checked that Containers[0] exists
SetInitialCluster(sts, kind, clName, namespace) ==
    IF kind = Etcd
    THEN [sts EXCEPT !.containers[1].args =
            Append(Append(@, Lit("--initial-cluster")),
                   PeerList(genInitialClusterArgs(1, clName, clName, namespace)))]
    ELSE sts

\* lines 180-200 on a decoded StatefulSet
ApplyOverrides(sts, spec, kind) ==
    SetInitialCluster(SetReplicas(SetResources(sts, spec), spec),
                      kind, clusterName, ncMeta.namespace)

\* genStatefulSetObject: [outcome, err, sts]
genStatefulSetObject(spec, kind, t, fetchOK) ==
    LET url == StsTemplateURL(spec, kind) IN
    CASE url = "panic: NOT IMPLEMENT YET" ->
            [outcome |-> "panic", err |-> "NOT IMPLEMENT YET", sts |-> EmptySts]
      [] url = "panic: Unreachable" ->
            [outcome |-> "panic", err |-> "Unreachable", sts |-> EmptySts]
      [] OTHER ->
            IF ~fetchOK
            THEN [outcome |-> "error", err |-> "fetch", sts |-> EmptySts]
            ELSE IF t.defect = "stsSyntax"
            THEN [outcome |-> "error", err |-> "substitute", sts |-> EmptySts]
            ELSE IF t.defect = "stsSchema"
            THEN [outcome |-> "error", err |-> "decode", sts |-> EmptySts]
            ELSE IF kind = Etcd /\ t.nContainers = 0
            THEN [outcome |-> "panic", err |-> "index out of range", sts |-> EmptySts]
            ELSE [outcome |-> "ok", err |-> "none",
                  sts |-> ApplyOverrides(DecodeSts(t, kind), spec, kind)]

(* ---------------- genServiceObject ---------------- *)
\* lines 100-112
SvcTemplateURL(spec, kind) ==
    IF spec.Version = "" /\ spec.Channel = ""
    THEN CASE kind = APIServer -> "defaultKASServiceURL"
           [] kind = Etcd -> "defaultEtcdServiceURL"
           [] OTHER -> "panic: Unreachable"
    ELSE "panic: NOT IMPLEMENT YET"

\* genServiceObject: [outcome, err, svc]
genServiceObject(spec, kind, t, fetchOK) ==
    LET url == SvcTemplateURL(spec, kind) IN
    CASE url = "panic: NOT IMPLEMENT YET" ->
            [outcome |-> "panic", err |-> "NOT IMPLEMENT YET", svc |-> EmptySvc]
      [] url = "panic: Unreachable" ->
            [outcome |-> "panic", err |-> "Unreachable", svc |-> EmptySvc]
      [] OTHER ->
            IF ~fetchOK
            THEN [outcome |-> "error", err |-> "fetch", svc |-> EmptySvc]
            ELSE IF t.defect = "svcSyntax"
            THEN [outcome |-> "error", err |-> "substitute", svc |-> EmptySvc]
            ELSE IF t.defect = "svcSchema"
            THEN [outcome |-> "error", err |-> "decode", svc |-> EmptySvc]
            ELSE [outcome |-> "ok", err |-> "none", svc |-> DecodeSvc(t, kind)]

(* ---------------- the object store ---------------- *)
Exists(objs, obj) == \E o \in objs : o.name = obj.name

\* what cli.Create can answer for obj
CreateResponses(objs, obj) ==
    (IF flaky THEN {"Transient"} ELSE {})
        \cup {IF Exists(objs, obj) THEN "AlreadyExists" ELSE "ok"}

\* the objects of one kind after cli.Create answered resp
AfterCreate(objs, obj, resp) ==
    IF resp = "ok" THEN objs \cup {obj} ELSE objs

Logged(kind, obj, resp) ==
    [kind |-> kind, name |-> obj.name,
     ownerReferences |-> obj.ownerReferences, resp |-> resp]

(* ---------------- createNestedComponentSts ---------------- *)
\* line 72
NeedsServiceNever(kind) == FALSE

NeedsService(kind) == kind # ControllerManager

TypeOK ==
    /\ ncSpec \in [Version : Versions, Channel : Channels,
                   Replicas : 0..MaxReplicas, Resources : ResourceValues]
    /\ ncKind \in ComponentKinds
    /\ flaky \in BOOLEAN
    /\ pc \in {"idle", "check", "genSts", "genSvc", "createSvc", "createSts",
               "done", "crashed"}

Init ==
    /\ ncSpec \in [Version : Versions, Channel : Channels,
                   Replicas : 0..MaxReplicas, Resources : ResourceValues]
    /\ ncKind \in ComponentKinds
    /\ tmpl \in [replicas : {NilReplicas} \cup 0..MaxTmplReplicas,
                 nContainers : 0..MaxContainers,
                 ownerRefs : {<<>>, <<ForeignRef>>},
                 defect : TmplDefects]
    /\ flaky = TRUE
    /\ store = [services |-> {}, statefulsets |-> {}]
    /\ pc = "idle"
    /\ ncSts = EmptySts
    /\ ncSvc = EmptySvc
    /\ creates = <<>>
    /\ result = NoResult

\* the watch loop calls createNestedComponentSts (lines 48-57)
Invoke ==
    /\ pc \in {"idle", "done"}
    /\ pc' = "check"
    /\ ncSts' = EmptySts
    /\ ncSvc' = EmptySvc
    /\ creates' = <<>>
    /\ result' = NoResult
    /\ UNCHANGED <<ncSpec, ncKind, tmpl, flaky, store>>

\* lines 62-64
CheckVersionChannel ==
    /\ pc = "check"
    /\ IF ncSpec.Version # "" /\ ncSpec.Channel # ""
       THEN /\ pc' = "crashed"
            /\ result' = [outcome |-> "panic", err |-> "NOT IMPLEMENT YET"]
       ELSE /\ pc' = "genSts"
            /\ UNCHANGED result
    /\ UNCHANGED <<ncSpec, ncKind, tmpl, flaky, store, ncSts, ncSvc, creates>>

\* lines 68-72
GenStatefulSet ==
    /\ pc = "genSts"
    /\ \E fetchOK \in (IF flaky THEN BOOLEAN ELSE {TRUE}) :
        LET r == genStatefulSetObject(ncSpec, ncKind, tmpl, fetchOK) IN
        CASE r.outcome = "panic" ->
                /\ pc' = "crashed"
                /\ result' = [outcome |-> "panic", err |-> r.err]
                /\ UNCHANGED ncSts
          [] r.outcome = "error" ->
                /\ pc' = "done"
                /\ result' = [outcome |-> "error", err |-> "genSts"]
                /\ UNCHANGED ncSts
          [] OTHER ->
                /\ pc' = IF NeedsService(ncKind) THEN "genSvc" ELSE "createSts"
                /\ ncSts' = r.sts
                /\ UNCHANGED result
    /\ UNCHANGED <<ncSpec, ncKind, tmpl, flaky, store, ncSvc, creates>>

\* lines 74-78
GenService ==
    /\ pc = "genSvc"
    /\ \E fetchOK \in (IF flaky THEN BOOLEAN ELSE {TRUE}) :
        LET r == genServiceObject(ncSpec, ncKind, tmpl, fetchOK) IN
        CASE r.outcome = "panic" ->
                /\ pc' = "crashed"
                /\ result' = [outcome |-> "panic", err |-> r.err]
                /\ UNCHANGED ncSvc
          [] r.outcome = "error" ->
                /\ pc' = "done"
                /\ result' = [outcome |-> "error", err |-> "genSvc"]
                /\ UNCHANGED ncSvc
          [] OTHER ->
                /\ pc' = "createSvc"
                /\ ncSvc' = SetOwnerReferences(r.svc, <<NewControllerRef(ncMeta, ncKind)>>)
                /\ UNCHANGED result
    /\ UNCHANGED <<ncSpec, ncKind, tmpl, flaky, store, ncSts, creates>>

\* lines 79-84
CreateService ==
    /\ pc = "createSvc"
    /\ \E resp \in CreateResponses(store.services, ncSvc) :
        /\ store' = [store EXCEPT !.services = AfterCreate(@, ncSvc, resp)]
        /\ creates' = Append(creates, Logged("Service", ncSvc, resp))
        /\ IF resp = "ok"
           THEN pc' = "createSts" /\ UNCHANGED result
           ELSE pc' = "done" /\ result' = [outcome |-> "error", err |-> resp]
    /\ UNCHANGED <<ncSpec, ncKind, tmpl, flaky, ncSts, ncSvc>>

\* lines 87-90
CreateStatefulSet ==
    /\ pc = "createSts"
    /\ LET sts == SetOwnerReferences(ncSts, <<NewControllerRef(ncMeta, ncKind)>>) IN
       \E resp \in CreateResponses(store.statefulsets, sts) :
        /\ ncSts' = sts
        /\ store' = [store EXCEPT !.statefulsets = AfterCreate(@, sts, resp)]
        /\ creates' = Append(creates, Logged("StatefulSet", sts, resp))
        /\ pc' = "done"
        /\ result' = IF resp = "ok" THEN [outcome |-> "ok", err |-> "none"]
                     ELSE [outcome |-> "error", err |-> resp]
    /\ UNCHANGED <<ncSpec, ncKind, tmpl, flaky, ncSvc>>

\* the transient failures of the template fetch and of the store end
Stabilise ==
    /\ flaky
    /\ flaky' = FALSE
    /\ UNCHANGED <<ncSpec, ncKind, tmpl, store, pc, ncSts, ncSvc, creates, result>>

Next ==
    \/ Invoke
    \/ CheckVersionChannel
    \/ GenStatefulSet
    \/ GenService
    \/ CreateService
    \/ CreateStatefulSet
    \/ Stabilise

Spec == Init /\ [][Next]_vars

\* the watch loop keeps calling, every call runs to its end, and the
\* transient failures end
LiveSpec ==
    /\ Init /\ [][Next]_vars
    /\ WF_vars(Invoke)
    /\ WF_vars(CheckVersionChannel)
    /\ WF_vars(GenStatefulSet)
    /\ WF_vars(GenService)
    /\ WF_vars(CreateService)
    /\ WF_vars(CreateStatefulSet)
    /\ WF_vars(Stabilise)

(* ---------------- helpers of the properties ---------------- *)
DefaultTemplate == ncSpec.Version = "" /\ ncSpec.Channel = ""
Finished == pc \in {"done", "crashed"}
StsGenerated == ncSts.name # <<>>
OwnerRef == NewControllerRef(ncMeta, ncKind)
LastCreate == creates[Len(creates)]
CreatedByThisCall(kind) ==
    \E i \in DOMAIN creates : creates[i].kind = kind /\ creates[i].resp = "ok"
Stored(kind) == IF kind = "Service" THEN store.services ELSE store.statefulsets
\* the value of the last --initial-cluster flag of the first container
InitialClusterPeers == ncSts.containers[1].args[Len(ncSts.containers[1].args)].peers

(* ---------------- C1 ---------------- *)
\* C1: when a create of the invocation answered AlreadyExists, the invocation
\* returns no error and the store holds exactly one object of that name.
C1_AlreadyExistsIsSuccess ==
    (pc = "done" /\ creates # <<>> /\ LastCreate.resp = "AlreadyExists")
        => /\ result.outcome = "ok"
           /\ Cardinality({o \in Stored(LastCreate.kind) : o.name = LastCreate.name}) = 1

(* ---------------- C2 ---------------- *)
\* C2 as stated: with the default template the creates of a finished
\* invocation are fixed by the kind: Service first and StatefulSet only after
\* the Service create succeeded (Etcd, APIServer); exactly one create, the
\* StatefulSet, and no Service (ControllerManager).
C2_CreateSequenceByKind ==
    (DefaultTemplate /\ pc = "done") =>
        /\ ncKind \in {Etcd, APIServer} =>
            /\ Len(creates) <= 2
            /\ \A i \in DOMAIN creates :
                IF i = 1 THEN creates[i].kind = "Service"
                ELSE /\ creates[i].kind = "StatefulSet"
                     /\ creates[1].resp = "ok"
        /\ ncKind = ControllerManager =>
            /\ Len(creates) = 1
            /\ creates[1].kind = "StatefulSet"
            /\ ncSvc = EmptySvc

\* C2 amended: the same order for Etcd and APIServer; for ControllerManager
\* no Service is generated or created and the only create is the StatefulSet
\* one, issued exactly when genStatefulSetObject succeeded (an invocation that
\* fails to generate the StatefulSet issues no create).
C2_CreateSequence ==
    DefaultTemplate =>
        /\ ncKind \in {Etcd, APIServer} =>
            /\ Len(creates) <= 2
            /\ \A i \in DOMAIN creates :
                IF i = 1 THEN creates[i].kind = "Service"
                ELSE /\ creates[i].kind = "StatefulSet"
                     /\ creates[1].resp = "ok"
            /\ (pc = "createSts") => (Len(creates) = 1 /\ creates[1].resp = "ok")
        /\ ncKind = ControllerManager =>
            /\ Len(creates) <= 1
            /\ \A i \in DOMAIN creates : creates[i].kind = "StatefulSet"
            /\ ncSvc = EmptySvc
            /\ store.services = {}
            /\ pc = "done" => (Len(creates) = 1 <=> StsGenerated)

C2_Witness ==
    /\ DefaultTemplate /\ ncKind = Etcd /\ pc = "done"
    /\ Len(creates) = 2
    /\ creates[1].kind = "Service" /\ creates[1].resp = "ok"
    /\ creates[2].kind = "StatefulSet" /\ creates[2].resp = "ok"

(* ---------------- C3 ---------------- *)
\* C3: a failed invocation never leaves a Service it created in the store
\* without the StatefulSet.
C3_NoPartialApply ==
    (Finished /\ result.outcome # "ok")
        => ~(CreatedByThisCall("Service") /\ store.statefulsets = {})

(* ---------------- C4 ---------------- *)
\* C4: with a version or a channel set (either or both) the invocation fails
\* as unimplemented: the default template is never decoded, nothing is
\* created, and the invocation never returns successfully.
C4_VersionChannelUnimplemented ==
    (ncSpec.Version # "" \/ ncSpec.Channel # "") =>
        /\ creates = <<>>
        /\ store.services = {} /\ store.statefulsets = {}
        /\ ncSts = EmptySts /\ ncSvc = EmptySvc
        /\ result.outcome \in {"none", "panic"}
        /\ Finished => (pc = "crashed" /\ result.err = "NOT IMPLEMENT YET")

C4_Witness ==
    /\ ncSpec.Version # "" /\ ncSpec.Channel = ""
    /\ pc = "crashed" /\ result.err = "NOT IMPLEMENT YET"

(* ---------------- C5 ---------------- *)
\* C5: no invocation ends in a panic; every failure is a returned error.
C5_NeverPanics ==
    pc # "crashed" /\ result.outcome # "panic"

(* ---------------- C6 ---------------- *)
\* C6: every object handed to cli.Create, and every stored object, carries
\* exactly one owner reference, the controller reference of ncMeta/ncKind,
\* whatever the template held; setting the same owner again keeps it one.
C6_SingleOwnerReference ==
    /\ \A i \in DOMAIN creates :
        /\ creates[i].ownerReferences = <<OwnerRef>>
        /\ SetOwnerReferences(creates[i], <<OwnerRef>>).ownerReferences = <<OwnerRef>>
    /\ \A o \in store.services : o.ownerReferences = <<OwnerRef>>
    /\ \A o \in store.statefulsets :
        /\ o.ownerReferences = <<OwnerRef>>
        /\ Len(SetOwnerReferences(o, <<OwnerRef>>).ownerReferences) = 1

C6_Witness ==
    /\ pc = "done" /\ Len(creates) = 2 /\ result.outcome = "ok"
    /\ tmpl.ownerRefs = <<ForeignRef>>
    /\ store.services # {} /\ store.statefulsets # {}

(* ---------------- C7 ---------------- *)
\* C7: for Etcd the --initial-cluster value lists one peer per replica of the
\* generated StatefulSet (r >= 1 replicas), named clusterName-0 ..
\* clusterName-(r-1).
C7_PeersPerReplica ==
    (ncKind = Etcd /\ StsGenerated /\ ncSts.replicas >= 1) =>
        /\ Len(InitialClusterPeers) = ncSts.replicas
        /\ \A i \in DOMAIN InitialClusterPeers :
            InitialClusterPeers[i].peer = <<clusterName, i - 1>>

(* ---------------- C8 ---------------- *)
\* C8: with replicas = 0 the generated StatefulSet keeps the replicas decoded
\* from the template; with replicas = r > 0 it has exactly r.
C8_ReplicaOverride ==
    StsGenerated =>
        IF ncSpec.Replicas = 0
        THEN ncSts.replicas = tmpl.replicas
        ELSE ncSts.replicas = ncSpec.Replicas

C8_Witness ==
    /\ StsGenerated /\ ncSpec.Replicas = 0
    /\ tmpl.replicas = MaxTmplReplicas /\ ncSts.replicas = MaxTmplReplicas

(* ---------------- C9 ---------------- *)
\* C9 as stated: every container of the generated StatefulSet has exactly
\* ncSpec.Resources, and applying the override step again changes nothing,
\* for every kind.
C9_OverrideIdempotent ==
    StsGenerated =>
        /\ \A i \in DOMAIN ncSts.containers :
            ncSts.containers[i].resources = ncSpec.Resources
        /\ ApplyOverrides(ncSts, ncSpec, ncKind) = ncSts

\* C9 amended: every container has exactly ncSpec.Resources; applying the
\* override step again changes nothing for APIServer and ControllerManager,
\* and for Etcd changes only the first container's arguments, which get a
\* second "--initial-cluster <peers>" pair appended.
C9_OverrideUniform ==
    StsGenerated =>
        /\ \A i \in DOMAIN ncSts.containers :
            ncSts.containers[i].resources = ncSpec.Resources
        /\ ncKind # Etcd => ApplyOverrides(ncSts, ncSpec, ncKind) = ncSts
        /\ ncKind = Etcd =>
            LET again == ApplyOverrides(ncSts, ncSpec, ncKind)
                args == ncSts.containers[1].args
                n == Len(args)
            IN /\ again = [ncSts EXCEPT !.containers[1].args =
                                args \o <<args[n - 1], args[n]>>]
               /\ args[n - 1] = Lit("--initial-cluster")

C9_Witness ==
    /\ StsGenerated /\ ncKind = Etcd
    /\ Len(ncSts.containers) = MaxContainers
    /\ ncSpec.Resources = "cpu500m"
    /\ \A i \in DOMAIN ncSts.containers : ncSts.containers[i].resources = "cpu500m"

(* ---------------- C10 ---------------- *)
\* C10: for Etcd or APIServer with the default, well-formed template, under
\* repeated invocation and once the transient failures have ended, the
\* StatefulSet eventually exists in the store, from every state.
C10_Converges ==
    (/\ ncKind \in {Etcd, APIServer}
     /\ DefaultTemplate
     /\ tmpl.defect = "none"
     /\ tmpl.nContainers >= 1)
        ~> (store.statefulsets # {})

====
